---- MODULE Spec2Model ----
(***************************************************************************)
(* Trustora media-authenticity backend: the scan job lifecycle             *)
(* (backend/app/api/analysis.py, history.py, upload.py, reset_scans.py)    *)
(* and the per-modality score fusion and risk classification               *)
(* (_analyze_image_real, _analyze_audio_real, _analyze_video_real).        *)
(***************************************************************************)
EXTENDS Integers, Sequences, FiniteSets, TLC

\* ------------------------------------------------------------------ bounds
NJobs == 3        \* scan ids
NMain == 2        \* scan rows created under Spec
MaxRuns == 2      \* background tasks ever scheduled for one scan
MaxHist == 1      \* history requests (delete / restore) in flight at once

Jobs == 1..NJobs

\* ------------------------------------------------------------- value sets
UploadTypes == {"image", "audio", "video"}
Digests == {"h1", "h2"}
Contents == Digests \cup {"missing"}
\* A file that os.path.exists finds and open() refuses: no read permission, a
\* directory at the path, or the file removed between the two calls.
Unreadable == "unreadable"
FileStates == Contents \cup {Unreadable}

NoScan == [status |-> "absent"]
Deleted == [status |-> "deleted"]

\* analysis_result column: NULL, or a JSON object with a body (the analyzer's
\* result dict, an {"error": ...} object, or no such key) and the is_deleted key.
\* body.kind: "null" (SQL NULL), "none" (an object without result or error),
\* "verdict" (the analyzer's result dict), "error" ({"error": val}).
\* A result dict is identified by the run that produced it, <<scan id, run>>:
\* no two runs return the same dict (processing_time, sealed_at).
NoVerdict == <<0, 0>>
\* body.seal: where the dict holds the seal record: "none", "root" (key
\* blockchain_seal of the dict) or "details" (inside analysis_details).
NullBody == [kind |-> "null", err |-> "", v |-> NoVerdict, seal |-> "none"]
EmptyBody == [kind |-> "none", err |-> "", v |-> NoVerdict, seal |-> "none"]
NullResult == [body |-> NullBody, is_deleted |-> "absent"]

ErrNotFound == "File not found: <path>"
ErrUnsupported == "Unsupported file type: <type>"
ErrAnalyzer == "Cannot open video file"
ErrHeuristic == "OpenCV(<version>) error: <message>"
\* str(asyncio.TimeoutError()) is the empty string
ErrTimeout == ""

ErrorBody(e) == [kind |-> "error", err |-> e, v |-> NoVerdict, seal |-> "none"]
VerdictBody(v, seal) == [kind |-> "verdict", err |-> "", v |-> v, seal |-> seal]

VARIABLES
    scans,      \* the scans table: id -> row (NoScan before the upload, Deleted after a hard delete)
    tasks,      \* background tasks scheduled and not finished
    nsched,     \* id -> number of background tasks scheduled so far
    requests,   \* history requests between their query and their commit
    fired,      \* id -> the pending->processing transition has fired
    calc,       \* an analyzer's inputs to score fusion, then its result
    hf,         \* hf_detector: the module globals and the calls running in worker threads
    frames      \* the video upload directory's key-frame files and the video analyzers using them

vars == <<scans, tasks, nsched, requests, fired, calc, hf, frames>>

Exists(j) == scans[j].status \notin {"absent", "deleted"}

\* Scan(...) as upload.py builds it: status pending, no verdict columns
\* (verdict stands for deepfake_score, confidence and risk_level).
\* file is the content found at file_url: a digest, or "missing".
NewScan(ft, c) ==
    [file_type |-> ft, file |-> c, status |-> "pending", verdict |-> NoVerdict,
     analysis_result |-> NullResult]

NoCalc == [phase |-> "none"]
NoHf == [phase |-> "none"]
NoFrames == [phase |-> "none"]

NoJobs ==
    /\ scans = [j \in Jobs |-> NoScan]
    /\ tasks = {}
    /\ nsched = [j \in Jobs |-> 0]
    /\ requests = {}
    /\ fired = [j \in Jobs |-> FALSE]

Init == NoJobs /\ calc = NoCalc /\ hf = NoHf /\ frames = NoFrames

\* Rows get fresh ids (uuid4): modelled as the ids in order.
IsNextId(j) == scans[j] = NoScan /\ \A i \in Jobs : i < j => scans[i] # NoScan

\* upload_image / upload_video / upload_audio: save_file, then a pending row.
Upload(j, ft, c) ==
    /\ IsNextId(j)
    /\ scans' = [scans EXCEPT ![j] = NewScan(ft, c)]
    /\ UNCHANGED <<tasks, nsched, requests, fired, calc, hf, frames>>

\* A row whose file_type (a free String column) is none of the three the
\* upload routes write.
InsertScan(j, c) ==
    /\ IsNextId(j)
    /\ scans' = [scans EXCEPT ![j] = NewScan("document", c)]
    /\ UNCHANGED <<tasks, nsched, requests, fired, calc, hf, frames>>

\* The task BackgroundTasks.add_task schedules; row0 is filled when it runs.
\* expired: the budget of wait_for ran out; slow: hashing the files of the
\* cache lookup takes the run longer than that budget.
NewTask(j, r) == [id |-> j, run |-> r, pc |-> "queued", expired |-> FALSE,
                  slow |-> FALSE, row0 |-> NoScan]

\* start_analysis with the statuses that make it return early.
StartWith(j, early) ==
    IF ~Exists(j) \/ scans[j].status \in early THEN
        UNCHANGED vars
    ELSE
        /\ nsched[j] < MaxRuns
        /\ scans' = [scans EXCEPT ![j].status = "processing"]
        /\ nsched' = [nsched EXCEPT ![j] = @ + 1]
        /\ tasks' = tasks \cup {NewTask(j, nsched[j] + 1)}
        /\ fired' = [fired EXCEPT ![j] = @ \/ scans[j].status = "pending"]
        /\ UNCHANGED <<requests, calc, hf, frames>>

\* Mutants: the early return misses one of the two statuses.
StartAnalysis_RestartsCompleted(j) == StartWith(j, {"processing"})
StartAnalysis_RestartsProcessing(j) == StartWith(j, {"completed"})

\* POST /analyze/start/{scan_id}: 404 for an unknown id; a completed or
\* processing scan is returned as it is; any other goes to processing and a
\* background task is added.
StartAnalysis(j) == StartWith(j, {"completed", "processing"})

\* What start_analysis returns (`return scan`, after the refresh): the row's
\* status as stored when the route ends.
StartReturn(j) == IF Exists(j) THEN scans[j].status ELSE "404"

\* POST /analyze/batch: every pending scan of the list goes to processing;
\* no task is added.
BatchAnalysis(ids) ==
    LET queued == {j \in ids : Exists(j) /\ scans[j].status = "pending"} IN
    /\ scans' = [j \in Jobs |-> IF j \in queued
                                THEN [scans[j] EXCEPT !.status = "processing"]
                                ELSE scans[j]]
    /\ fired' = [j \in Jobs |-> fired[j] \/ j \in queued]
    /\ UNCHANGED <<tasks, nsched, requests, calc, hf, frames>>

\* reset_scans.py: UPDATE scans SET status = 'pending' WHERE status = 'processing'
reset_stuck_scans ==
    /\ scans' = [j \in Jobs |-> IF scans[j].status = "processing"
                                THEN [scans[j] EXCEPT !.status = "pending"]
                                ELSE scans[j]]
    /\ UNCHANGED <<tasks, nsched, requests, fired, calc, hf, frames>>

\* ------------------------------------------------------- background task
\* db.commit() of a session that loaded `loaded` and now holds `new`: the
\* UPDATE carries the columns whose value changed in the session.
Flush(db, loaded, new) ==
    [db EXCEPT !.status = IF new.status # loaded.status THEN new.status ELSE @,
               !.verdict = IF new.verdict # loaded.verdict THEN new.verdict ELSE @,
               !.analysis_result = IF new.analysis_result # loaded.analysis_result
                                   THEN new.analysis_result ELSE @]

\* Mutant: the lookup passes over soft-deleted scans.
CacheMatches_SkipsDeleted(j) ==
    {a \in Jobs : /\ a # j
                  /\ Exists(a)
                  /\ scans[a].status = "completed"
                  /\ scans[a].analysis_result.is_deleted # "true"
                  /\ scans[a].file # "missing"
                  /\ scans[a].file = scans[j].file}

\* analysis.py 449-456: completed scans other than j whose file has j's digest.
CacheMatches(j) ==
    {a \in Jobs : /\ a # j
                  /\ Exists(a)
                  /\ scans[a].status = "completed"
                  /\ scans[a].file # "missing"
                  /\ scans[a].file = scans[j].file}

\* Mutant: the copy leaves analysis_result out.
CacheCopy_DropsResult(row, old_scan) ==
    [row EXCEPT !.status = "completed", !.verdict = old_scan.verdict]

\* analysis.py 458-462: the row after a cache hit on old_scan.
CacheCopy(row, old_scan) ==
    [row EXCEPT !.status = "completed",
                !.verdict = old_scan.verdict,
                !.analysis_result = old_scan.analysis_result]

\* analysis.py 431-432, 498-499: the row after a failure with message e.
FailedRow(row, e) ==
    [row EXCEPT !.status = "failed",
                !.analysis_result = [body |-> ErrorBody(e), is_deleted |-> "absent"]]

\* Mutant: the score columns are written and analysis_result is not.
CompletedRow_ColumnsOnly(row, v, seal) ==
    [row EXCEPT !.status = "completed", !.verdict = v]

\* analysis.py 477-490: the row after the analyzer returned result v and the
\* sealing step left its record in it (seal = "root") or raised ("none").
CompletedRow(row, v, seal) ==
    [row EXCEPT !.status = "completed",
                !.verdict = v,
                !.analysis_result = [body |-> VerdictBody(v, seal), is_deleted |-> "absent"]]

Finish(t) == tasks' = tasks \ {t}

\* run_analysis_background up to its first suspension point (lines 419-475):
\* load the row, check the file, look the digest up among the completed scans,
\* and enter the analyzer of the row's file_type.
RunBegin(t) ==
    LET j == t.id
        row == scans[j]
    IN
    /\ t \in tasks /\ t.pc = "queued"
    /\ UNCHANGED <<nsched, requests, fired, calc, hf, frames>>
    /\ IF ~Exists(j) THEN
            /\ Finish(t)
            /\ UNCHANGED scans
       ELSE IF row.file = "missing" THEN
            /\ scans' = [scans EXCEPT ![j] = FailedRow(row, ErrNotFound)]
            /\ Finish(t)
       ELSE IF row.file = Unreadable THEN
            \* get_file_hash raises at line 447, outside the inner try: the
            \* handler of lines 502-504 logs it and the row is not written
            /\ Finish(t)
            /\ UNCHANGED scans
       ELSE IF CacheMatches(j) # {} THEN
            \* .all() has no ORDER BY: the first matching row is any of them
            /\ \E a \in CacheMatches(j) :
                   scans' = [scans EXCEPT ![j] = CacheCopy(row, scans[a])]
            /\ Finish(t)
       ELSE IF row.file_type \notin UploadTypes THEN
            /\ scans' = [scans EXCEPT ![j] = FailedRow(row, ErrUnsupported)]
            /\ Finish(t)
       ELSE
            /\ tasks' = (tasks \ {t}) \cup {[t EXCEPT !.pc = "analyzing", !.row0 = row]}
            /\ UNCHANGED scans

\* The cache lookup of the run (lines 447-456: get_file_hash of its file and
\* of the file of every completed scan, plain blocking calls) takes longer
\* than Budget(file_type). No wait_for is active before line 469: RunBegin
\* goes on as it does for a fast lookup.
SlowLookup(t) ==
    /\ t \in tasks /\ t.pc = "queued" /\ ~t.slow
    /\ tasks' = (tasks \ {t}) \cup {[t EXCEPT !.slow = TRUE]}
    /\ UNCHANGED <<scans, nsched, requests, fired, calc, hf, frames>>

\* The write of a run that resumes after its analyzer: the session still holds
\* the row as loaded at line 421; a row deleted meanwhile makes the commit
\* raise (StaleDataError), which the outer handler swallows.
RunCommit(t, new) ==
    IF Exists(t.id)
    THEN scans' = [scans EXCEPT ![t.id] = Flush(@, t.row0, new)]
    ELSE UNCHANGED scans

\* Mutant: the result is stored without the seal record.
AnalyzerReturn_Unsealed(t) ==
    /\ t \in tasks /\ t.pc = "analyzing"
    /\ RunCommit(t, CompletedRow(t.row0, <<t.id, t.run>>, "none"))
    /\ Finish(t)
    /\ UNCHANGED <<nsched, requests, fired, calc, hf, frames>>

\* The analyzer returns its result; sealing (result["blockchain_seal"] =
\* seal_data) and lines 486-492 follow without another suspension point.
AnalyzerReturn(t) ==
    /\ t \in tasks /\ t.pc = "analyzing"
    /\ RunCommit(t, CompletedRow(t.row0, <<t.id, t.run>>, "root"))
    /\ Finish(t)
    /\ UNCHANGED <<nsched, requests, fired, calc, hf, frames>>

ErrSealing == "<sealing error>"

\* Mutant: a sealing error reaches the handler of lines 495-500.
SealingFails_Escalates(t) ==
    /\ t \in tasks /\ t.pc = "analyzing"
    /\ RunCommit(t, FailedRow(t.row0, ErrSealing))
    /\ Finish(t)
    /\ UNCHANGED <<nsched, requests, fired, calc, hf, frames>>

\* The analyzer returns its result and the sealing step raises: lines
\* 483-484 log the error and lines 486-492 store the result without a seal.
SealingFails(t) ==
    /\ t \in tasks /\ t.pc = "analyzing"
    /\ RunCommit(t, CompletedRow(t.row0, <<t.id, t.run>>, "none"))
    /\ Finish(t)
    /\ UNCHANGED <<nsched, requests, fired, calc, hf, frames>>

\* What an analyzer raises: the video analyzer when the file does not open
\* (line 315), any analyzer when a statement outside its try blocks (a
\* signal heuristic) raises.
AnalyzerErrors(ft) == IF ft = "video" THEN {ErrAnalyzer, ErrHeuristic} ELSE {ErrHeuristic}

\* The analyzer raises (lines 495-500).
AnalyzerRaise(t) ==
    /\ t \in tasks /\ t.pc = "analyzing"
    /\ \E e \in AnalyzerErrors(t.row0.file_type) : RunCommit(t, FailedRow(t.row0, e))
    /\ Finish(t)
    /\ UNCHANGED <<nsched, requests, fired, calc, hf, frames>>

\* asyncio.wait_for's budget per file_type (lines 469-473), in seconds.
Budget(ft) == IF ft = "video" THEN 180 ELSE 120

\* What the analyzer does with the CancelledError that wait_for throws into
\* it at its await. The image and audio analyzers await inside
\* `except Exception`, which lets it through, and wait_for raises
\* TimeoutError; the video analyzer awaits inside a bare `except: pass`
\* (line 359), which swallows it: the analyzer goes on and wait_for returns
\* its result.
TimeoutSwallowed(ft) == ft = "video"

\* The budget expires while the analyzer awaits the neural inference.
Timeout(t) ==
    /\ t \in tasks /\ t.pc = "analyzing" /\ ~t.expired
    /\ UNCHANGED <<nsched, requests, fired, calc, hf, frames>>
    /\ IF TimeoutSwallowed(t.row0.file_type) THEN
            /\ tasks' = (tasks \ {t}) \cup {[t EXCEPT !.expired = TRUE]}
            /\ UNCHANGED scans
       ELSE
            /\ RunCommit(t, FailedRow(t.row0, ErrTimeout))
            /\ Finish(t)

\* ---------------------------------------------------------------- history
\* res = scan.analysis_result or {}; res["is_deleted"] = flag
WithDeleted(ar, flag) ==
    [body |-> IF ar.body.kind = "null" THEN EmptyBody ELSE ar.body,
     is_deleted |-> flag]

\* The object restore_scan assigns: a new dict when the column was NULL, the
\* loaded dict itself (mutated in place) otherwise.
RestoreAssignsNew(ar) == ar.body.kind = "null"

\* The analysis_result a history route commits, from the one its session
\* loaded and the one stored now. delete_scan calls flag_modified, which puts
\* the column into the UPDATE. restore_scan does not: assigning the loaded
\* dict, mutated in place, leaves the attribute equal to its loaded value and
\* the UPDATE carries nothing; only a NULL column gets the new
\* {"is_deleted": false}.
HistoryWrite(op, loaded, stored) ==
    IF op = "delete" THEN WithDeleted(loaded, "true")
    ELSE IF RestoreAssignsNew(loaded) THEN WithDeleted(loaded, "false")
    ELSE stored

\* delete_scan (history.py 75-95) and restore_scan (54-71) with no other
\* commit between their query and their commit.
delete_scan(j) ==
    /\ Exists(j)
    /\ scans' = [scans EXCEPT ![j].analysis_result = HistoryWrite("delete", @, @)]
    /\ UNCHANGED <<tasks, nsched, requests, fired, calc, hf, frames>>

restore_scan(j) ==
    /\ Exists(j)
    /\ scans' = [scans EXCEPT ![j].analysis_result = HistoryWrite("restore", @, @)]
    /\ UNCHANGED <<tasks, nsched, requests, fired, calc, hf, frames>>

\* Both are plain (sync) routes: they run on worker threads, so a background
\* task can commit between their query and their commit. A request holds the
\* analysis_result its session loaded. A restore of a non-NULL column commits
\* nothing whatever happens in between, and is restore_scan above.
HistoryQuery(op, j) ==
    /\ Exists(j)
    /\ op = "restore" => RestoreAssignsNew(scans[j].analysis_result)
    /\ Cardinality(requests) < MaxHist
    /\ requests' = requests \cup
           {[op |-> op, id |-> j, loaded |-> scans[j].analysis_result]}
    /\ UNCHANGED <<scans, tasks, nsched, fired, calc, hf, frames>>

\* A row deleted meanwhile makes the commit raise.
HistoryCommit(q) ==
    /\ q \in requests
    /\ requests' = requests \ {q}
    /\ IF Exists(q.id)
       THEN scans' = [scans EXCEPT ![q.id].analysis_result =
                          HistoryWrite(q.op, q.loaded, @)]
       ELSE UNCHANGED scans
    /\ UNCHANGED <<tasks, nsched, fired, calc, hf, frames>>

\* history.py 99-114
hard_delete_scan(j) ==
    /\ Exists(j)
    /\ scans' = [scans EXCEPT ![j] = Deleted]
    /\ UNCHANGED <<tasks, nsched, requests, fired, calc, hf, frames>>

\* The response of get_result: 404, 400 unless completed, else the verdict
\* columns and analysis_details, into which a blockchain_seal found at the
\* root of the stored dict is merged (lines 580-583).
ResultResponse(j) ==
    IF ~Exists(j) THEN [code |-> 404, score |-> NoVerdict, details_seal |-> FALSE]
    ELSE IF scans[j].status # "completed"
    THEN [code |-> 400, score |-> NoVerdict, details_seal |-> FALSE]
    ELSE [code |-> 200, score |-> scans[j].verdict,
          details_seal |-> scans[j].analysis_result.body.seal \in {"root", "details"}]

\* GET /analyze/result/{job_id}: reads the row; the session is closed without
\* a commit, so the merge of the seal into `details` is not stored.
get_result(j) ==
    UNCHANGED <<scans, tasks, nsched, requests, fired, calc, hf, frames>>

\* ------------------------------------------------------------------- spec
MainJobs == 1..NMain

\* The job lifecycle over NMain scans.
Next ==
    \/ \E j \in MainJobs, ft \in UploadTypes, c \in Contents : Upload(j, ft, c)
    \/ \E j \in MainJobs, c \in Contents : InsertScan(j, c)
    \/ \E j \in Jobs : StartAnalysis(j)
    \/ \E ids \in SUBSET Jobs : BatchAnalysis(ids)
    \/ reset_stuck_scans
    \/ \E t \in tasks : RunBegin(t)
    \/ \E t \in tasks : AnalyzerReturn(t)
    \/ \E t \in tasks : AnalyzerRaise(t)
    \/ \E t \in tasks : Timeout(t)
    \/ \E j \in Jobs : hard_delete_scan(j)
    \/ \E j \in Jobs : get_result(j)

Spec == Init /\ [][Next]_vars

\* One scan, with the history routes interleaved with its background task.
NextHist ==
    \/ \E ft \in UploadTypes, c \in Contents : Upload(1, ft, c)
    \/ \E c \in Contents : InsertScan(1, c)
    \/ StartAnalysis(1)
    \/ BatchAnalysis({1})
    \/ reset_stuck_scans
    \/ \E t \in tasks : RunBegin(t)
    \/ \E t \in tasks : AnalyzerReturn(t)
    \/ \E t \in tasks : AnalyzerRaise(t)
    \/ \E t \in tasks : Timeout(t)
    \/ delete_scan(1)
    \/ restore_scan(1)
    \/ \E op \in {"delete", "restore"} : HistoryQuery(op, 1)
    \/ \E q \in requests : HistoryCommit(q)
    \/ hard_delete_scan(1)
    \/ get_result(1)

SpecHist == Init /\ [][NextHist]_vars

\* The cache-hit path with three scans: uploads of files that exist, runs
\* whose analyzer returns, soft and hard delete.
NextCache ==
    \/ \E j \in Jobs, ft \in UploadTypes, c \in Digests : Upload(j, ft, c)
    \/ \E j \in Jobs : StartAnalysis(j)
    \/ \E t \in tasks : RunBegin(t)
    \/ \E t \in tasks : AnalyzerReturn(t)
    \/ \E j \in Jobs : delete_scan(j)
    \/ \E j \in Jobs : hard_delete_scan(j)

SpecCache == Init /\ [][NextCache]_vars

\* One scan with the sealing step allowed to raise.
NextSeal ==
    \/ \E ft \in UploadTypes, c \in Contents : Upload(1, ft, c)
    \/ StartAnalysis(1)
    \/ reset_stuck_scans
    \/ \E t \in tasks : RunBegin(t)
    \/ \E t \in tasks : AnalyzerReturn(t)
    \/ \E t \in tasks : SealingFails(t)
    \/ \E t \in tasks : AnalyzerRaise(t)
    \/ \E t \in tasks : Timeout(t)
    \/ hard_delete_scan(1)
    \/ get_result(1)

SpecSeal == Init /\ [][NextSeal]_vars

\* One scan whose file can be missing or unreadable, started by either route.
NextFile ==
    \/ \E ft \in UploadTypes, c \in FileStates : Upload(1, ft, c)
    \/ StartAnalysis(1)
    \/ BatchAnalysis({1})
    \/ reset_stuck_scans
    \/ \E t \in tasks : RunBegin(t)
    \/ \E t \in tasks : AnalyzerReturn(t)
    \/ \E t \in tasks : AnalyzerRaise(t)
    \/ \E t \in tasks : Timeout(t)

SpecFile == Init /\ [][NextFile]_vars

\* The same with the scheduling the event loop gives: a task that was added
\* runs, and an analyzer that was entered returns or raises.
SpecLive ==
    /\ Init /\ [][NextFile]_vars
    /\ WF_vars(\E t \in tasks : RunBegin(t))
    /\ WF_vars(\E t \in tasks : AnalyzerReturn(t) \/ AnalyzerRaise(t))

\* Two scans with files that exist, their runs with slow and fast lookups.
NextTimer ==
    \/ \E j \in MainJobs, ft \in UploadTypes, c \in Digests : Upload(j, ft, c)
    \/ \E j \in MainJobs : StartAnalysis(j)
    \/ \E t \in tasks : SlowLookup(t)
    \/ \E t \in tasks : RunBegin(t)
    \/ \E t \in tasks : AnalyzerReturn(t)
    \/ \E t \in tasks : Timeout(t)

SpecTimer == Init /\ [][NextTimer]_vars

\* ---------------------------------------------------------- score fusion
\* Sub-scores are in hundredths (100 is 1.0). Neural scores and final scores
\* are in hundredths of a point (10000 is 100.00): hf_predict_* and the
\* analyzers round them to two decimals. A final score before rounding is
\* the fraction num / den of hundredths of a point.
MaxFrames == 3      \* key frames that get a neural score in one video
MaxFaces == 2       \* detected faces whose colour jump exceeds 30

NoNeural == -1      \* hf_score_pct = None

SubGrid == {0, 40, 50, 100}
EdgeScores == {80, 30}
FaceScores == {0, 41, 100}
MetadataScores == {0, 40, 80, 20}
NeuralGrid == {NoNeural, 0, 1499, 1500, 5000, 8500, 8501, 9000, 10000}
AudioGrid == {0, 75, 100}
VideoGrid == {0, 50, 100}
FrameGrid == {0, 3000, 3500, 3501, 4000, 6400, 10000}

\* faces counts the detected faces with a colour jump above 30: each appends
\* its tag, and face_anomaly_score is above 0 exactly when there is one.
ImageInputs ==
    {c \in [sharpness_score : SubGrid, noise_score : SubGrid, edge_score : EdgeScores,
            face_anomaly_score : FaceScores, metadata_score : MetadataScores,
            hf_score_pct : NeuralGrid, faces : 0..MaxFaces] :
        (c.faces = 0) <=> (c.face_anomaly_score = 0)}

AudioInputs ==
    [mfcc_score : AudioGrid, flatness_score : AudioGrid, pitch_score : AudioGrid,
     phase_score : AudioGrid, hf_score_pct : NeuralGrid]

VideoInputs ==
    [avg_frame_score : VideoGrid, motion_score : VideoGrid,
     hf_scores : UNION {[1..n -> FrameGrid] : n \in 0..MaxFrames}]

RECURSIVE SeqSum(_)
SeqSum(q) == IF q = <<>> THEN 0 ELSE Head(q) + SeqSum(Tail(q))

SeqMax(q) == CHOOSE x \in {q[i] : i \in DOMAIN q} : \A i \in DOMAIN q : q[i] <= x
SeqMin(q) == CHOOSE x \in {q[i] : i \in DOMAIN q} : \A i \in DOMAIN q : x <= q[i]

\* Mutant: no clamp.
Min100_Unclamped(f) == f

\* min(final_score, 100)
Min100(f) == IF f.num > 10000 * f.den THEN [num |-> 10000 * f.den, den |-> f.den] ELSE f

\* round(x, 2): the nearest hundredth. Python rounds the binary double, so at
\* a decimal tie either neighbour can come out.
Round2(f) ==
    LET q == f.num \div f.den
        r == f.num % f.den
    IN  IF 2 * r < f.den THEN {q}
        ELSE IF 2 * r > f.den THEN {q + 1}
        ELSE {q, q + 1}

\* _analyze_image_real, lines 113-148.
ImageSignal(c) ==
    c.sharpness_score * 25 + c.noise_score * 25 + c.edge_score * 15
        + c.face_anomaly_score * 25 + c.metadata_score * 10

\* Mutant: 15 and 85 themselves take the confident rule.
ImageFinal_InclusiveSwitch(c) ==
    LET signal_score == ImageSignal(c)
        hf_score_pct == c.hf_score_pct
    IN  IF hf_score_pct # NoNeural THEN
            IF hf_score_pct >= 8500 \/ hf_score_pct <= 1500
            THEN [num |-> hf_score_pct * 85 + signal_score * 15, den |-> 100]
            ELSE [num |-> hf_score_pct * 60 + signal_score * 40, den |-> 100]
        ELSE [num |-> signal_score, den |-> 1]

ImageFinal(c) ==
    LET signal_score == ImageSignal(c)
        hf_score_pct == c.hf_score_pct
    IN  IF hf_score_pct # NoNeural THEN
            IF hf_score_pct > 8500 \/ hf_score_pct < 1500
            THEN [num |-> hf_score_pct * 85 + signal_score * 15, den |-> 100]
            ELSE [num |-> hf_score_pct * 60 + signal_score * 40, den |-> 100]
        ELSE [num |-> signal_score, den |-> 1]

ImageScores(c) == Round2(Min100(ImageFinal(c)))

\* Mutant: the tiers start at their thresholds.
ImageRisk_AtThreshold(score) ==
    IF score >= 8000 THEN "CRITICAL" ELSE IF score >= 6500 THEN "HIGH"
    ELSE IF score >= 4000 THEN "MEDIUM" ELSE "LOW"

ImageRisk(score) ==
    IF score > 8000 THEN "CRITICAL" ELSE IF score > 6500 THEN "HIGH"
    ELSE IF score > 4000 THEN "MEDIUM" ELSE "LOW"

\* _analyze_audio_real, lines 263-278.
AudioSignal(c) ==
    c.mfcc_score * 40 + c.flatness_score * 20 + c.pitch_score * 20
        + c.phase_score * 20

\* Mutant: the two weights exchanged.
AudioFinal_Swapped(c) ==
    LET signal_score_pct == AudioSignal(c)
    IN  IF c.hf_score_pct # NoNeural
        THEN [num |-> c.hf_score_pct * 30 + signal_score_pct * 70, den |-> 100]
        ELSE [num |-> signal_score_pct, den |-> 1]

AudioFinal(c) ==
    LET signal_score_pct == AudioSignal(c)
    IN  IF c.hf_score_pct # NoNeural
        THEN [num |-> c.hf_score_pct * 70 + signal_score_pct * 30, den |-> 100]
        ELSE [num |-> signal_score_pct, den |-> 1]

AudioScores(c) == Round2(Min100(AudioFinal(c)))

AudioRisk(score) ==
    IF score > 8000 THEN "CRITICAL" ELSE IF score > 6000 THEN "HIGH"
    ELSE IF score > 3500 THEN "MEDIUM" ELSE "LOW"

\* _analyze_video_real, lines 368-393.
Jitter(hf_scores) ==
    IF Len(hf_scores) > 1 THEN SeqMax(hf_scores) - SeqMin(hf_scores) ELSE 0

\* Mutant: a spread of exactly 35 counts.
IsJittery_AtLeast(hf_scores) == Jitter(hf_scores) >= 3500

IsJittery(hf_scores) == Jitter(hf_scores) > 3500

VideoSignal(c) == c.avg_frame_score * 40 + c.motion_score * 60

\* Mutant: the image rule applied to the mean neural score.
VideoFinal_ImageRule(c) ==
    LET n == Len(c.hf_scores)
        signal_pct == VideoSignal(c)
        sum == SeqSum(c.hf_scores)
        bonus == IF IsJittery(c.hf_scores) THEN 1500 ELSE 0
        confident == sum > 8500 * n \/ sum < 1500 * n
    IN  IF n > 0
        THEN Min100([num |-> sum * (IF confident THEN 85 ELSE 60)
                                 + signal_pct * (IF confident THEN 15 ELSE 40) * n
                                 + bonus * 100 * n,
                     den |-> 100 * n])
        ELSE [num |-> signal_pct, den |-> 1]

VideoFinal(c) ==
    LET n == Len(c.hf_scores)
        signal_pct == VideoSignal(c)
        bonus == IF IsJittery(c.hf_scores) THEN 1500 ELSE 0
    IN  IF n > 0
        THEN Min100([num |-> SeqSum(c.hf_scores) * 75 + signal_pct * 25 * n
                                 + bonus * 100 * n,
                     den |-> 100 * n])
        ELSE [num |-> signal_pct, den |-> 1]

VideoScores(c) == Round2(VideoFinal(c))

VideoRisk(score) ==
    IF score > 8000 THEN "CRITICAL" ELSE IF score > 6000 THEN "HIGH"
    ELSE IF score > 4000 THEN "MEDIUM" ELSE "LOW"

\* artifacts_found: the tags in the order the analyzer appends them.
TagOrder ==
    <<"ai_generative_pattern", "ai_software_signature", "face_blending_artifact",
      "high_spectral_flatness", "low_mfcc_variation", "missing_exif_metadata",
      "phase_discontinuities", "synthetic_voice_detected",
      "temporal_inference_jitter", "unnatural_motion_vectors",
      "unnatural_pitch_regularity">>

Range(q) == {q[i] : i \in DOMAIN q}

\* sorted(list(set(q)))
SortedSet(q) == SelectSeq(TagOrder, LAMBDA x : x \in Range(q))

Repeat(tag, n) == [i \in 1..n |-> tag]
Tag(cond, tag) == IF cond THEN <<tag>> ELSE <<>>

\* hf_predict_*: the label is FAKE when the unrounded fake score is above
\* 0.5; a rounded 50.00 goes with either label.
Labels(hf_score_pct) ==
    IF hf_score_pct = NoNeural THEN {"NONE"}
    ELSE IF hf_score_pct > 5000 THEN {"FAKE"}
    ELSE IF hf_score_pct < 5000 THEN {"REAL"}
    ELSE {"FAKE", "REAL"}

ImageEmitted(c, label) ==
    Repeat("face_blending_artifact", c.faces)
        \o Tag(c.metadata_score = 40, "missing_exif_metadata")
        \o Tag(c.metadata_score = 80, "ai_software_signature")
        \o Tag(label = "FAKE", "ai_generative_pattern")

\* Mutant: the list as appended.
ImageArtifacts_Raw(emitted) == emitted

ImageArtifacts(emitted) == SortedSet(emitted)

AudioEmitted(c, label) ==
    Tag(c.mfcc_score > 60, "low_mfcc_variation")
        \o Tag(c.flatness_score > 60, "high_spectral_flatness")
        \o Tag(c.pitch_score > 65, "unnatural_pitch_regularity")
        \o Tag(c.phase_score > 50, "phase_discontinuities")
        \o Tag(label = "FAKE", "synthetic_voice_detected")

AudioArtifacts(emitted) == emitted

VideoEmitted(c) ==
    Tag(IsJittery(c.hf_scores), "temporal_inference_jitter")
        \o Tag(c.motion_score > 60, "unnatural_motion_vectors")

VideoArtifacts(emitted) == SortedSet(emitted)

\* The neural entry of model_scores (NoNeural: the key is not there).
ImageNeuralEntry(c) == IF c.hf_score_pct = NoNeural THEN 0 ELSE c.hf_score_pct
AudioNeuralEntry(c) == c.hf_score_pct

\* "ai_consensus": round(avg_hf, 1), avg_hf being 0 without neural scores.
VideoNeuralEntry(c) ==
    IF c.hf_scores = <<>> THEN {0}
    ELSE {10 * x : x \in Round2([num |-> SeqSum(c.hf_scores), den |-> 10 * Len(c.hf_scores)])}

Result(modality, c, score, risk, deepfake, emitted, artifacts, neural) ==
    [phase |-> "done", modality |-> modality, in |-> c, score |-> score,
     risk_level |-> risk, is_deepfake |-> deepfake, emitted |-> emitted,
     artifacts_found |-> artifacts, neural_entry |-> neural]

Pending(modality) == calc.phase = "input" /\ calc.modality = modality

analyze_image ==
    /\ Pending("image")
    /\ \E score \in ImageScores(calc.in), label \in Labels(calc.in.hf_score_pct) :
           LET emitted == ImageEmitted(calc.in, label)
           IN  calc' = Result("image", calc.in, score, ImageRisk(score), score >= 6500,
                              emitted, ImageArtifacts(emitted), ImageNeuralEntry(calc.in))
    /\ UNCHANGED <<scans, tasks, nsched, requests, fired, hf, frames>>

analyze_audio ==
    /\ Pending("audio")
    /\ \E score \in AudioScores(calc.in), label \in Labels(calc.in.hf_score_pct) :
           LET emitted == AudioEmitted(calc.in, label)
           IN  calc' = Result("audio", calc.in, score, AudioRisk(score), score >= 6000,
                              emitted, AudioArtifacts(emitted), AudioNeuralEntry(calc.in))
    /\ UNCHANGED <<scans, tasks, nsched, requests, fired, hf, frames>>

analyze_video ==
    /\ Pending("video")
    /\ \E score \in VideoScores(calc.in), neural \in VideoNeuralEntry(calc.in) :
           LET emitted == VideoEmitted(calc.in)
           IN  calc' = Result("video", calc.in, score, VideoRisk(score), score >= 6000,
                              emitted, VideoArtifacts(emitted), neural)
    /\ UNCHANGED <<scans, tasks, nsched, requests, fired, hf, frames>>

InitScore ==
    /\ NoJobs /\ hf = NoHf /\ frames = NoFrames
    /\ \/ \E c \in ImageInputs : calc = [phase |-> "input", modality |-> "image", in |-> c]
       \/ \E c \in AudioInputs : calc = [phase |-> "input", modality |-> "audio", in |-> c]
       \/ \E c \in VideoInputs : calc = [phase |-> "input", modality |-> "video", in |-> c]

NextScore == analyze_image \/ analyze_audio \/ analyze_video

SpecScore == InitScore /\ [][NextScore]_vars

\* ------------------------------------------------------ neural pipelines
\* hf_detector.py: the module globals _pipeline and _audio_pipeline, and the
\* calls of hf_predict_image / hf_predict_audio that loop.run_in_executor
\* runs in the threads of the default executor.
NCalls == 3         \* calls of hf_predict_image / hf_predict_audio

Calls == 1..NCalls
Pipelines == {"image", "audio"}
NoPipeline == 0     \* None

\* A call: where its thread is, which classifier it asks for, and the
\* (model, processor) pair get_hf_pipeline returned to it. Loaded pairs are
\* numbered in the order they are stored.
IdleCall == [pc |-> "idle", kind |-> "image", got |-> NoPipeline]

InitNeural ==
    /\ NoJobs /\ calc = NoCalc /\ frames = NoFrames
    /\ hf = [phase |-> "run",
             pipeline |-> [p \in Pipelines |-> NoPipeline],
             loads |-> [p \in Pipelines |-> 0],
             calls |-> [k \in Calls |-> IdleCall]]

HfStep(k, from) == hf.phase = "run" /\ hf.calls[k].pc = from

\* An analyzer submits hf_predict_image or hf_predict_audio to the executor.
hf_predict(k, p) ==
    /\ HfStep(k, "idle")
    /\ hf' = [hf EXCEPT !.calls[k] = [pc |-> "check", kind |-> p, got |-> NoPipeline]]
    /\ UNCHANGED <<scans, tasks, nsched, requests, fired, calc, frames>>

\* get_hf_pipeline, lines 32-33 (69-70): the global is returned when set.
HfCheck(k) ==
    LET p == hf.calls[k].kind IN
    /\ HfStep(k, "check")
    /\ hf' = IF hf.pipeline[p] # NoPipeline
             THEN [hf EXCEPT !.calls[k].pc = "inference", !.calls[k].got = hf.pipeline[p]]
             ELSE [hf EXCEPT !.calls[k].pc = "loading"]
    /\ UNCHANGED <<scans, tasks, nsched, requests, fired, calc, frames>>

\* Lines 35-58 (72-90): from_pretrained builds a new pair and the global is
\* assigned, whatever it holds by then.
HfLoad(k) ==
    LET p == hf.calls[k].kind IN
    /\ HfStep(k, "loading")
    /\ hf' = [hf EXCEPT !.calls[k].pc = "loaded",
                        !.loads[p] = @ + 1,
                        !.pipeline[p] = hf.loads[p] + 1]
    /\ UNCHANGED <<scans, tasks, nsched, requests, fired, calc, frames>>

\* Lines 62-64 (93-95): the load raises, None is returned and hf_predict_*
\* returns None; the global stays as it is.
HfLoadFails(k) ==
    /\ HfStep(k, "loading")
    /\ hf' = [hf EXCEPT !.calls[k].pc = "done"]
    /\ UNCHANGED <<scans, tasks, nsched, requests, fired, calc, frames>>

\* Line 60 (92): `return _pipeline` reads the global again.
HfReturn(k) ==
    /\ HfStep(k, "loaded")
    /\ hf' = [hf EXCEPT !.calls[k].pc = "inference",
                        !.calls[k].got = hf.pipeline[hf.calls[k].kind]]
    /\ UNCHANGED <<scans, tasks, nsched, requests, fired, calc, frames>>

\* hf_predict_image lines 106-132 (hf_predict_audio 145-172): inference with
\* the pair the call got.
HfInfer(k) ==
    /\ HfStep(k, "inference")
    /\ hf' = [hf EXCEPT !.calls[k].pc = "done"]
    /\ UNCHANGED <<scans, tasks, nsched, requests, fired, calc, frames>>

NextNeural ==
    \/ \E k \in Calls, p \in Pipelines : hf_predict(k, p)
    \/ \E k \in Calls : HfCheck(k)
    \/ \E k \in Calls : HfLoad(k)
    \/ \E k \in Calls : HfLoadFails(k)
    \/ \E k \in Calls : HfReturn(k)
    \/ \E k \in Calls : HfInfer(k)

SpecNeural == InitNeural /\ [][NextNeural]_vars

\* ------------------------------------------------------ video key frames
\* _analyze_video_real, lines 317-359: the key frames of a video are written
\* as tmp_v_<idx>.jpg into the directory of the video file, which is
\* uploads/videos for every upload (upload.py 27, 85), scored by
\* hf_predict_image in an executor thread, and removed.
NVideos == 2        \* video analyzers running at the same time

Videos == 1..NVideos
TotalFrames == {50, 60}     \* CAP_PROP_FRAME_COUNT
Fps == 25                   \* CAP_PROP_FPS

Min(a, b) == IF a < b THEN a ELSE b
Max(a, b) == IF a > b THEN a ELSE b

\* sample_count = min(15, max(int(duration * 2), 5)), duration = total / fps
SampleCount(total) == Min(15, Max((2 * total) \div Fps, 5))

\* frame_indices[i] = int(i * total_frames / sample_count), i from 0
FrameIndex(total, i) == (i * total) \div SampleCount(total)

\* The frames with i % 4 == 0, in order: those the neural model scores.
KeyFrames(total) ==
    [n \in 1..((SampleCount(total) + 3) \div 4) |-> FrameIndex(total, 4 * (n - 1))]

FrameNames == UNION {{KeyFrames(total)[n] : n \in DOMAIN KeyFrames(total)} : total \in TotalFrames}

NoFile == 0     \* no file of that name; otherwise the video whose frame it holds

\* An analyzer: its video's frame count, the key frame it is at, where it is
\* (write, infer, resume, done), what hf_predict_image returned (NoFile for
\* None, else the video whose frame was scored), the videos whose frames its
\* hf_scores were computed from, and the videos whose frame files it removed.
NewAnalyzer(total) ==
    [total |-> total, k |-> 1, pc |-> "write", res |-> NoFile, hf_src |-> <<>>,
     removed |-> {}]

InitFrames ==
    /\ NoJobs /\ calc = NoCalc /\ hf = NoHf
    /\ \E totals \in [Videos -> TotalFrames] :
           frames = [phase |-> "run",
                     files |-> [name \in FrameNames |-> NoFile],
                     jobs |-> [v \in Videos |-> NewAnalyzer(totals[v])]]

FrameStep(v, from) == frames.phase = "run" /\ frames.jobs[v].pc = from

\* frame_tmp of the key frame the analyzer is at (line 352)
FrameTmp(v) == KeyFrames(frames.jobs[v].total)[frames.jobs[v].k]

\* Lines 351-353: cv2.imwrite(frame_tmp, ai_frame), replacing a file of that name.
FrameWrite(v) ==
    /\ FrameStep(v, "write")
    /\ frames' = [frames EXCEPT !.files[FrameTmp(v)] = v, !.jobs[v].pc = "infer"]
    /\ UNCHANGED <<scans, tasks, nsched, requests, fired, calc, hf>>

\* Line 355, in the executor thread: hf_predict_image opens frame_tmp as it
\* is by then. None comes back when the file is gone (Image.open raises
\* inside hf_predict_image) or the pipeline is not available.
FrameInfer(v) ==
    /\ FrameStep(v, "infer")
    /\ \E res \in {NoFile, frames.files[FrameTmp(v)]} :
           frames' = [frames EXCEPT !.jobs[v].res = res, !.jobs[v].pc = "resume"]
    /\ UNCHANGED <<scans, tasks, nsched, requests, fired, calc, hf>>

\* Lines 356-358, back on the event loop: the score is appended, the file of
\* that name is removed if there is one, and the loop goes to the next key frame.
FrameResume(v) ==
    LET job == frames.jobs[v]
        name == FrameTmp(v)
        last == job.k = Len(KeyFrames(job.total))
    IN
    /\ FrameStep(v, "resume")
    /\ frames' = [frames EXCEPT
           !.files[name] = NoFile,
           !.jobs[v] = [job EXCEPT
               !.hf_src = IF job.res # NoFile THEN Append(@, job.res) ELSE @,
               !.removed = IF frames.files[name] # NoFile
                           THEN @ \cup {frames.files[name]} ELSE @,
               !.res = NoFile,
               !.k = IF last THEN @ ELSE @ + 1,
               !.pc = IF last THEN "done" ELSE "write"]]
    /\ UNCHANGED <<scans, tasks, nsched, requests, fired, calc, hf>>

NextFrames ==
    \/ \E v \in Videos : FrameWrite(v)
    \/ \E v \in Videos : FrameInfer(v)
    \/ \E v \in Videos : FrameResume(v)

SpecFrames == InitFrames /\ [][NextFrames]_vars

\* ============================================================ properties
InFlight(j) == {t \in tasks : t.id = j}
Status(j) == scans[j].status
Ended(t) == \A u \in tasks : u.id # t.id \/ u.run # t.run

C2_FiresOnce ==
    [][\A j \in Jobs :
          (Exists(j) /\ Exists(j)' /\ Status(j) = "pending" /\ Status(j)' = "processing")
              => ~fired[j]]_vars

\* C2 (amended): start_analysis on a processing or completed scan changes
\* no row, schedules no task and returns the scan's current status; on any
\* other scan it moves the scan to processing and schedules exactly one task.
C2_StartReentrant ==
    [][\A j \in Jobs :
          (StartAnalysis(j) /\ Exists(j)) =>
              IF Status(j) \in {"processing", "completed"}
              THEN /\ scans' = scans /\ tasks' = tasks /\ nsched' = nsched
                   /\ StartReturn(j)' = Status(j)
              ELSE /\ Status(j)' = "processing"
                   /\ nsched'[j] = nsched[j] + 1
                   /\ Cardinality(tasks' \ tasks) = 1
                   /\ StartReturn(j)' = "processing"]_vars

\* C2 witness: start_analysis has fired once for a scan that is now
\* processing with its one task scheduled: a second call is re-entrant.
C2_Witness ==
    \E j \in Jobs :
        /\ Exists(j) /\ Status(j) = "processing"
        /\ nsched[j] = 1 /\ fired[j] /\ Cardinality(InFlight(j)) = 1

\* The completed scans, other than j, whose file has j's digest.
SameDigestCompleted(j) ==
    {a \in Jobs \ {j} :
        Exists(a) /\ Status(a) = "completed" /\ scans[a].file = scans[j].file}

\* The run t has looked the cache up and left scan t.id completed with the
\* verdict columns and analysis_result of scan a, without entering an analyzer.
CopiedFrom(t, a) ==
    /\ Status(t.id)' = "completed"
    /\ scans'[t.id].verdict = scans[a].verdict
    /\ scans'[t.id].analysis_result = scans[a].analysis_result
    /\ Ended(t)'

CacheLookup(t) ==
    /\ RunBegin(t) /\ Exists(t.id)
    /\ scans[t.id].file # "missing" /\ SameDigestCompleted(t.id) # {}

\* C3 (as stated): when scan A is completed and scan B's file has A's
\* digest, B's background run ends with B completed carrying A's verdict
\* (columns and analysis_result), and no analyzer runs for B.
C3_IdenticalToEach ==
    [][\A t \in tasks :
          CacheLookup(t) => \A a \in SameDigestCompleted(t.id) : CopiedFrom(t, a)]_vars

\* C3 (amended): when some completed scan has the digest of B's file, B's
\* background run ends with B completed carrying the verdict (columns and
\* analysis_result) of one of those scans, and no analyzer runs for B.
C3_IdenticalToOne ==
    [][\A t \in tasks :
          CacheLookup(t) => \E a \in SameDigestCompleted(t.id) : CopiedFrom(t, a)]_vars

\* C3 witness: a completed scan carrying the verdict that another scan's run
\* produced for the same digest.
C3_Witness ==
    \E a, b \in Jobs :
        /\ a # b /\ Exists(a) /\ Exists(b)
        /\ Status(a) = "completed" /\ Status(b) = "completed"
        /\ scans[a].file = scans[b].file
        /\ scans[b].verdict = <<a, 1>>
        /\ scans[b].analysis_result = scans[a].analysis_result
        /\ InFlight(b) = {}

\* The tiers in their order.
Tier(risk) ==
    IF risk = "LOW" THEN 0 ELSE IF risk = "MEDIUM" THEN 1
    ELSE IF risk = "HIGH" THEN 2 ELSE 3

RiskOf(modality, score) ==
    IF modality = "image" THEN ImageRisk(score)
    ELSE IF modality = "audio" THEN AudioRisk(score)
    ELSE VideoRisk(score)

Scores == 0..10000

\* C9: whatever the modality and the sub-scores (neural score present or
\* absent, jitter bonus included), the final score is between 0 and 100.
C9_ScoreInRange ==
    calc.phase = "done" => calc.score >= 0 /\ calc.score <= 10000

\* C9 witness: a jittery video whose fused score plus the bonus exceeds 100
\* and comes out as exactly 100.
C9_Witness ==
    /\ calc.phase = "done" /\ calc.modality = "video"
    /\ IsJittery(calc.in.hf_scores)
    /\ SeqSum(calc.in.hf_scores) * 75 + VideoSignal(calc.in) * 25 * Len(calc.in.hf_scores)
           > 8500 * 100 * Len(calc.in.hf_scores)
    /\ calc.score = 10000

\* C10: within a modality the risk tier is a function of the score that
\* never decreases as the score grows; for an image the tier is CRITICAL
\* above 80, HIGH above 65, MEDIUM above 40 and LOW otherwise.
C10_RiskMonotone ==
    calc.phase = "done" =>
        /\ LET tier == Tier(calc.risk_level)
           IN  \A s \in Scores :
                   IF s <= calc.score
                   THEN Tier(RiskOf(calc.modality, s)) <= tier
                   ELSE Tier(RiskOf(calc.modality, s)) >= tier
        /\ calc.modality = "image" =>
              /\ calc.risk_level = "CRITICAL" <=> calc.score > 8000
              /\ calc.risk_level = "HIGH" <=> (calc.score > 6500 /\ calc.score <= 8000)
              /\ calc.risk_level = "MEDIUM" <=> (calc.score > 4000 /\ calc.score <= 6500)
              /\ calc.risk_level = "LOW" <=> calc.score <= 4000

\* C10 witness: an image scored exactly 80, which is HIGH.
C10_Witness ==
    /\ calc.phase = "done" /\ calc.modality = "image"
    /\ calc.score = 8000 /\ calc.risk_level = "HIGH"

Abs(x) == IF x < 0 THEN 0 - x ELSE x

\* score is final (in ten-thousandths of a point, n-fold) capped at 100 and
\* rounded to two decimals.
RoundsTo(score, final, n) ==
    LET capped == IF final > 1000000 * n THEN 1000000 * n ELSE final
    IN  2 * Abs(100 * n * score - capped) <= 100 * n

ImageDone == calc.phase = "done" /\ calc.modality = "image"
AudioDone == calc.phase = "done" /\ calc.modality = "audio"
VideoDone == calc.phase = "done" /\ calc.modality = "video"

\* C11: the image score is 0.85 N + 0.15 (100 S) when the neural score N is
\* above 85 or below 15, 0.60 N + 0.40 (100 S) for any other N (15 and 85
\* included), and 100 S without a neural score, capped and rounded.
C11_ImageFusion ==
    ImageDone =>
        LET S == ImageSignal(calc.in)
            N == calc.in.hf_score_pct
        IN  RoundsTo(calc.score,
                     IF N = NoNeural THEN 100 * S
                     ELSE IF N > 8500 \/ N < 1500 THEN 85 * N + 15 * S
                     ELSE 60 * N + 40 * S,
                     1)

\* C11 witness: S = 0.5 and N = 90 give 84.0.
C11_Witness ==
    /\ ImageDone /\ ImageSignal(calc.in) = 5000
    /\ calc.in.hf_score_pct = 9000 /\ calc.score = 8400

\* The video score with weights wn, ws for a confident mean neural score
\* and un, us for any other, the jitter bonus added before the cap.
VideoRule(wn, ws, un, us) ==
    LET n == Len(calc.in.hf_scores)
        sum == SeqSum(calc.in.hf_scores)
        S == VideoSignal(calc.in)
        confident == sum > 8500 * n \/ sum < 1500 * n
        bonus == IF "temporal_inference_jitter" \in Range(calc.emitted) THEN 150000 * n ELSE 0
    IN  IF n = 0 THEN RoundsTo(calc.score, 100 * S, 1)
        ELSE RoundsTo(calc.score,
                      (IF confident THEN wn * sum + ws * S * n ELSE un * sum + us * S * n) + bonus,
                      n)

\* C12 (as stated): the video score before the jitter bonus follows the
\* image rule (0.85/0.15 for a confident neural score, 0.60/0.40 otherwise,
\* 100 S without one).
C12_VideoAsImage == VideoDone => VideoRule(85, 15, 60, 40)

\* C12 (amended): the video score before the jitter bonus is
\* 0.75 N + 0.25 (100 S) for every mean neural score N, and 100 S when no
\* frame got a neural score.
C12_VideoFusion == VideoDone => VideoRule(75, 25, 75, 25)

\* C12 witness: one key frame scored 100 and a signal score of 0 give 75.
C12_Witness ==
    /\ VideoDone /\ calc.in.hf_scores = <<10000>>
    /\ VideoSignal(calc.in) = 0 /\ calc.score = 7500

\* C13: the audio score is 0.70 N + 0.30 (100 S) with a neural score N and
\* 100 S without, S = 0.40 MFCC + 0.20 flatness + 0.20 pitch + 0.20 phase.
C13_AudioFusion ==
    AudioDone =>
        LET c == calc.in
            S == 40 * c.mfcc_score + 20 * c.flatness_score + 20 * c.pitch_score
                     + 20 * c.phase_score
            N == c.hf_score_pct
        IN  RoundsTo(calc.score, IF N = NoNeural THEN 100 * S ELSE 70 * N + 30 * S, 1)

\* C13 witness: MFCC 1.0 alone (S = 0.4) and N = 100 give 82.
C13_Witness ==
    /\ AudioDone /\ calc.in.hf_score_pct = 10000 /\ calc.in.mfcc_score = 100
    /\ calc.in.flatness_score = 0 /\ calc.in.pitch_score = 0 /\ calc.in.phase_score = 0
    /\ calc.score = 8200

\* max - min of the per-frame neural scores (0 with fewer than two).
Spread(q) == IF Len(q) > 1 THEN SeqMax(q) - SeqMin(q) ELSE 0

\* C14: the video score carries a flat +15 before the cap exactly when the
\* spread of the per-frame neural scores is strictly above 35, the tag
\* temporal_inference_jitter is in the artifacts exactly then, and the
\* score is at most 100.
C14_JitterBonus ==
    VideoDone =>
        LET q == calc.in.hf_scores
            n == Len(q)
            base == 75 * SeqSum(q) + 25 * VideoSignal(calc.in) * n
            bonus == IF Spread(q) > 3500 THEN 150000 * n ELSE 0
        IN  /\ n > 0 => RoundsTo(calc.score, base + bonus, n)
            /\ "temporal_inference_jitter" \in Range(calc.artifacts_found)
                   <=> Spread(q) > 3500
            /\ calc.score <= 10000

\* C14 witness: frames scored 0 and 40 (spread 40) with signal 0: 15 + 15.
C14_Witness ==
    /\ VideoDone /\ calc.in.hf_scores = <<0, 4000>> /\ VideoSignal(calc.in) = 0
    /\ calc.score = 3000
    /\ "temporal_inference_jitter" \in Range(calc.artifacts_found)

NoNeuralScore ==
    /\ calc.phase = "done"
    /\ IF calc.modality = "video" THEN calc.in.hf_scores = <<>>
       ELSE calc.in.hf_score_pct = NoNeural

\* C15: when the neural backend gave no score, model_scores holds no neural
\* entry with value 0.
C15_NeuralAbsentNotZero == NoNeuralScore => calc.neural_entry # 0

\* C16: the artifacts list of a verdict holds no tag twice.
C16_NoDuplicateTags ==
    calc.phase = "done" =>
        \A i, k \in DOMAIN calc.artifacts_found :
            i # k => calc.artifacts_found[i] # calc.artifacts_found[k]

\* C16 witness: an image with two blended faces: the tag was appended twice
\* and is listed once.
C16_Witness ==
    /\ ImageDone /\ calc.in.faces = 2
    /\ Len(SelectSeq(calc.emitted, LAMBDA x : x = "face_blending_artifact")) = 2
    /\ Len(SelectSeq(calc.artifacts_found, LAMBDA x : x = "face_blending_artifact")) = 1

\* C17: when the sealing step raises, the run never sets the scan to
\* failed: it stores the verdict of this run without a seal record and
\* writes the status completed (a run that loaded the scan as completed
\* already writes no status and leaves the stored one as it is).
C17_SealingNeverFails ==
    [][\A t \in tasks :
          (SealingFails(t) /\ Exists(t.id))
              => /\ IF t.row0.status = "completed"
                    THEN Status(t.id)' = Status(t.id)
                    ELSE Status(t.id)' = "completed"
                 /\ scans'[t.id].verdict = <<t.id, t.run>>
                 /\ scans'[t.id].analysis_result.body = VerdictBody(<<t.id, t.run>>, "none")]_vars

\* C17 witness: a completed scan whose stored verdict has no seal record.
C17_Witness ==
    \E j \in Jobs :
        /\ Exists(j) /\ Status(j) = "completed"
        /\ scans[j].verdict # NoVerdict
        /\ scans[j].analysis_result.body.kind = "verdict"
        /\ scans[j].analysis_result.body.seal = "none"

\* C18 (as stated): when sealing succeeds, the stored record of the
\* completed scan holds the seal record inside its analysis_details.
C18_SealInDetails ==
    [][\A t \in tasks :
          (AnalyzerReturn(t) /\ Exists(t.id))
              => scans'[t.id].analysis_result.body.seal = "details"]_vars

\* C18 (amended): when sealing succeeds, the stored record of the completed
\* scan holds the seal record at its root (key blockchain_seal), and the
\* response of get_result for the completed scan carries it inside
\* analysis_details.
C18_SealAtRoot ==
    [][\A t \in tasks :
          (AnalyzerReturn(t) /\ Exists(t.id))
              => /\ scans'[t.id].analysis_result.body.seal = "root"
                 /\ Status(t.id)' = "completed"
                        => /\ ResultResponse(t.id)'.code = 200
                           /\ ResultResponse(t.id)'.details_seal]_vars

\* C18 witness: a completed scan with the seal record at the root of its
\* stored verdict, which get_result returns inside analysis_details.
C18_Witness ==
    \E j \in Jobs :
        /\ Exists(j) /\ Status(j) = "completed"
        /\ scans[j].analysis_result.body.seal = "root"
        /\ ResultResponse(j).code = 200 /\ ResultResponse(j).details_seal

\* C19: an exception of a signal heuristic never moves the scan to failed.
C19_DegradedNeverFails ==
    \A j \in Jobs :
        Exists(j) =>
            ~(/\ Status(j) = "failed"
              /\ scans[j].analysis_result.body.kind = "error"
              /\ scans[j].analysis_result.body.err = ErrHeuristic)

C21_UnreadableFails ==
    [][\A t \in tasks :
          (RunBegin(t) /\ Exists(t.id) /\ scans[t.id].file \in {"missing", Unreadable})
              => /\ Ended(t)'
                 /\ Status(t.id)' = "failed"
                 /\ scans'[t.id].analysis_result.body.kind = "error"
                 /\ scans'[t.id].analysis_result.body.err # ""]_vars

RacesOnDigest(t) ==
    \E u \in tasks : u.id # t.id /\ u.pc = "analyzing" /\ u.row0.file = t.row0.file

CacheEntries ==
    {h \in Digests : \E a \in Jobs : Exists(a) /\ Status(a) = "completed" /\ scans[a].file = h}

\* The run t has missed the cache and entered its analyzer; no row is written.
EntersAnalyzer(t) ==
    /\ scans' = scans
    /\ tasks' = (tasks \ {t}) \cup {[t EXCEPT !.pc = "analyzing", !.row0 = scans[t.id]]}

\* C24 (as stated): a cache entry is never invalidated: no operation removes
\* a digest from those a lookup finds.
C24_NeverInvalidated ==
    [][CacheEntries \subseteq CacheEntries']_vars

\* C24 (amended): a run whose file is readable gets a cache hit exactly when,
\* at its lookup, another scan with the file's digest is completed and has
\* its row; otherwise it enters its analyzer. Soft delete removes no entry.
C24_HitWhileCompleted ==
    [][/\ \A t \in tasks :
              (RunBegin(t) /\ Exists(t.id) /\ scans[t.id].file \in Digests
                   /\ scans[t.id].file_type \in UploadTypes)
                  => IF SameDigestCompleted(t.id) # {}
                     THEN \E a \in SameDigestCompleted(t.id) : CopiedFrom(t, a)
                     ELSE EntersAnalyzer(t)
       /\ (\E j \in Jobs : delete_scan(j)) => CacheEntries' = CacheEntries]_vars

\* C24 witness: a completed scan that has been soft-deleted, and the queued
\* run of another scan whose file has its digest: the lookup that hits on it.
C24_Witness ==
    \E a \in Jobs, t \in tasks :
        /\ a # t.id /\ Exists(a) /\ Exists(t.id) /\ t.pc = "queued"
        /\ Status(a) = "completed"
        /\ scans[a].analysis_result.is_deleted = "true"
        /\ scans[a].file = scans[t.id].file
        /\ SameDigestCompleted(t.id) = {a}

\* C25: a run whose cache lookup takes longer than the budget of its file
\* type ends there, with the scan failed and the timeout error stored.
C25_LookupTimesOut ==
    [][\A t \in tasks :
          (RunBegin(t) /\ t.slow /\ Exists(t.id))
              => /\ Ended(t)'
                 /\ Status(t.id)' = "failed"
                 /\ scans'[t.id].analysis_result.body = ErrorBody(ErrTimeout)]_vars

\* C26: a scan that is processing leaves processing (for completed or
\* failed) eventually, when scheduled tasks run and analyzers end.
C26_ProcessingEnds ==
    \A j \in Jobs :
        (Exists(j) /\ Status(j) = "processing") ~> (~Exists(j) \/ Status(j) # "processing")

\* get_deleted_history lists the scan and get_history hides it:
\* analysis_result holds a true is_deleted.
SoftDeleted(j) == Exists(j) /\ scans[j].analysis_result.is_deleted = "true"

\* C27: a soft-deleted scan stays soft-deleted until restore_scan acts on it:
\* no step of its background run clears the flag.
C27_DeleteSticks ==
    [][\A j \in Jobs :
          (SoftDeleted(j) /\ Exists(j)' /\ ~SoftDeleted(j)')
              => \/ restore_scan(j)
                 \/ \E q \in requests : q.op = "restore" /\ q.id = j /\ HistoryCommit(q)]_vars

\* C28: a cache hit does not soft-delete the scan it completes: a scan that
\* was not soft-deleted before its run's lookup is not soft-deleted after it.
C28_HitNotDeleted ==
    [][\A t \in tasks :
          (CacheLookup(t) /\ ~SoftDeleted(t.id)) => ~SoftDeleted(t.id)']_vars

\* C29: every neural score a video analyzer records was computed from a
\* frame of its own video, and the frame files it removes are its own.
C29_FramesIsolated ==
    frames.phase = "run" =>
        \A v \in Videos :
            /\ \A n \in DOMAIN frames.jobs[v].hf_src : frames.jobs[v].hf_src[n] = v
            /\ frames.jobs[v].removed \subseteq {v}

\* C30: in every analyzer result, is_deepfake is true exactly when the risk
\* tier is HIGH or CRITICAL.
C30_FlagMatchesTier ==
    calc.phase = "done" =>
        (calc.is_deepfake <=> calc.risk_level \in {"HIGH", "CRITICAL"})

\* C4: a run whose budget expired ends with the scan failed and no verdict
\* stored for it.
C4_TimeoutFails ==
    [][\A t \in tasks :
          ((t.expired \/ Timeout(t)) /\ Ended(t)' /\ Exists(t.id)')
              => /\ Status(t.id)' = "failed"
                 /\ scans'[t.id].verdict = NoVerdict
                 /\ scans'[t.id].analysis_result.body.kind = "error"]_vars

\* C5: every failed scan carries a non-empty error string.
C5_FailedHasError ==
    \A j \in Jobs :
        (Exists(j) /\ Status(j) = "failed")
            => /\ scans[j].analysis_result.body.kind = "error"
               /\ scans[j].analysis_result.body.err # ""

\* C6: every completed scan carries a fully populated verdict: the verdict
\* columns and the result dict (artifacts, model scores) in analysis_result.
C6_CompletedHasVerdict ==
    \A j \in Jobs :
        (Exists(j) /\ Status(j) = "completed")
            => /\ scans[j].verdict # NoVerdict
               /\ scans[j].analysis_result.body.kind = "verdict"

\* C7: the verdict columns of a scan are written by at most one background
\* run: a run that writes them finds them empty.
C7_VerdictOnce ==
    [][\A j \in Jobs :
          (Exists(j) /\ Exists(j)' /\ scans'[j].verdict # scans[j].verdict)
              => scans[j].verdict = NoVerdict]_vars

\* A step of a history route or of result retrieval.
HistoryStep ==
    \/ \E j \in Jobs : delete_scan(j) \/ restore_scan(j) \/ get_result(j)
    \/ \E q \in requests : HistoryCommit(q)

\* C8: once a scan is completed, soft delete, restore and result retrieval
\* leave its verdict columns and the result dict in analysis_result as they
\* are (the is_deleted key apart).
C8_VerdictImmutable ==
    [][\A j \in Jobs :
          (HistoryStep /\ Exists(j) /\ Status(j) = "completed" /\ Exists(j)')
              => /\ scans'[j].verdict = scans[j].verdict
                 /\ scans'[j].analysis_result.body = scans[j].analysis_result.body]_vars

====
